---- MODULE Spec2Model ----
(***************************************************************************)
(* mktotp: the secrets store (SecretMgr), its JSON persistence with        *)
(* temporary file and one-generation backup, and the Sessions              *)
(* (`with SecretMgr(path) as mgr:`) that func_impl.py opens around every   *)
(* operation.  One secrets-file path is modelled, with its .tmp and .bak   *)
(* siblings and the lock that guards it.                                   *)
(***************************************************************************)
EXTENDS Integers, Sequences, FiniteSets, TLC

(***************************************************************************)
(* Bounds of the model.                                                    *)
(***************************************************************************)
NumSess == 2      \* Sessions (threads or processes) opened on the path
MaxStore == 3     \* entries of the store in the direct-call scenario

Sess == 1..NumSess

(***************************************************************************)
(* Input universe.                                                         *)
(***************************************************************************)
U1 == "otpauth://totp/X:u1?secret=AAAA&issuer=X"
U2 == "otpauth://totp/Y:u2?secret=BBBB&issuer=Y"
BadUri == "not-a-uri"

\* names a caller may pass (the empty string is a str like any other)
Names == {"", "a"}

\* QR image files handed to decode_qrcode: whether the path is a file, its
\* extension, and the strings the detector finds in it
QrFiles ==
    { [is_file |-> FALSE, ext |-> "png", data |-> <<>>],
      [is_file |-> TRUE,  ext |-> "txt", data |-> <<U1>>],
      [is_file |-> TRUE,  ext |-> "png", data |-> <<>>],
      [is_file |-> TRUE,  ext |-> "png", data |-> <<"", U2>>],
      [is_file |-> TRUE,  ext |-> "png", data |-> <<U1, U2>>],
      [is_file |-> TRUE,  ext |-> "png", data |-> <<BadUri>>],
      [is_file |-> TRUE,  ext |-> "png", data |-> <<U1, BadUri>>] }

(***************************************************************************)
(* Files.  A file is absent or has a permission set and a content: a JSON  *)
(* document with a `secrets` array, or one of the contents load rejects.   *)
(***************************************************************************)
Absent == [kind |-> "absent"]

OwnerOnly == {"ur", "uw"}                  \* stat.S_IRUSR | stat.S_IWUSR
UmaskDefault == {"ur", "uw", "gr", "or"}   \* what open(path, 'w') creates

Doc(secrets, ts, mode) ==
    [kind |-> "doc", secrets |-> secrets, last_update |-> ts, mode |-> mode]
Other(kind, mode) == [kind |-> kind, mode |-> mode]

\* a JSON value of the `secrets` array that is not an object
NonObject == [json |-> "number"]

RecA == [name |-> "a", account |-> "u1", issuer |-> "X", secret |-> "AAAA"]
RecB == [name |-> "b", account |-> "u2", issuer |-> "Y", secret |-> "BBBB"]
RecNoName == [account |-> "u2", issuer |-> "Y", secret |-> "BBBB"]

InitSecrets ==
    { <<>>, <<RecA>>, <<RecA, RecB>>, <<RecNoName, RecA>>, <<NonObject>> }

InitFiles ==
    {Absent}
    \cup { Other(k, OwnerOnly) : k \in {"badjson", "notobject", "secrets_not_array"} }
    \cup { Doc(s, 0, OwnerOnly) : s \in InitSecrets }
    \cup { Doc(<<RecA>>, 0, UmaskDefault) }

VARIABLES
    file,          \* the secrets file at `path`
    bak,           \* path.with_suffix('.bak')
    tmp,           \* path.with_suffix('.tmp')
    lock,          \* the Sessions holding the lock on path.with_suffix('.lock')
    pc,            \* where each Session is
    secret_data,   \* each Session's SecretMgr.secret_data
    err,           \* the exception a Session raised, "" when none
    ret,           \* what the Session's operation returned
    clock,         \* datetime.now(): advances with every dump
    snap,          \* history: the save in progress or last ended
    lastSaved,     \* history: secret_data of the last save that replaced path
    file0,         \* history: the file as the behaviour found it
    task,          \* scenario: the registration a worker Session is given
    call           \* history: the last method called on a SecretMgr directly

vars == <<file, bak, tmp, lock, pc, secret_data, err, ret, clock, snap,
          lastSaved, file0, task, call>>

(***************************************************************************)
(* Python dict with insertion order, as a sequence of key/value entries.   *)
(***************************************************************************)
Keys(d) == { d[i].k : i \in DOMAIN d }

DictGet(d, k) == d[CHOOSE i \in DOMAIN d : d[i].k = k].v

\* d[k] = v : an existing key keeps its position, a new key goes last
DictSet(d, k, v) ==
    IF k \in Keys(d)
    THEN [i \in DOMAIN d |-> IF d[i].k = k THEN [k |-> k, v |-> v] ELSE d[i]]
    ELSE Append(d, [k |-> k, v |-> v])

\* del d[k]
DictDel(d, k) == SelectSeq(d, LAMBDA e : e.k # k)

\* list(d.values())
Values(d) == [i \in DOMAIN d |-> d[i].v]

\* Python truthiness of obj.get(field) for a JSON object with string fields
Truthy(obj, field) == field \in DOMAIN obj /\ obj[field] # ""

IsDict(v) == "json" \notin DOMAIN v

(***************************************************************************)
(* permutil.py                                                             *)
(***************************************************************************)
\* a file of another user: os.chmod on it raises PermissionError
Foreign(f) == "owner" \in DOMAIN f /\ f.owner # "self"

\* set_secure_permissions on a Unix-like system: chmod 0o600; an exception
\* of chmod is logged and swallowed (lines 44-45)
set_secure_permissions(f) ==
    IF f.kind = "absent" \/ Foreign(f) THEN f ELSE [f EXCEPT !.mode = OwnerOnly]

\* check_file_permissions: TRUE when neither group nor others may read or write
check_file_permissions(f) ==
    IF f.kind = "absent" THEN TRUE
    ELSE f.mode \cap {"gr", "gw", "or", "ow"} = {}

(***************************************************************************)
(* SecretMgr.load                                                          *)
(***************************************************************************)
\* lines 69-75: the loop over the `secrets` array
RECURSIVE LoadSecrets(_, _)
LoadSecrets(d, secrets) ==
    IF secrets = <<>> THEN d
    ELSE LET secret == Head(secrets)
             d1 == IF IsDict(secret) /\ Truthy(secret, "name")
                   THEN DictSet(d, secret.name, secret)
                   ELSE d
         IN LoadSecrets(d1, Tail(secrets))

\* lines 53-56: permissions are checked, and fixed, before the file is read
LoadFixPermissions(f) ==
    IF f.kind # "absent" /\ ~check_file_permissions(f)
    THEN set_secure_permissions(f)
    ELSE f

\* the exception load raises for file f, "" when it raises none
LoadError(f) ==
    CASE f.kind = "absent" -> "FileNotFoundError"
      [] f.kind \in {"badjson", "empty", "partial"} -> "JSONDecodeError"
      [] f.kind \in {"notobject", "secrets_not_array"} -> "ValueError"
      [] OTHER -> ""

\* secret_data after load() on file f, starting from secret_data d
LoadData(d, f) ==
    IF LoadError(f) = "" THEN LoadSecrets(d, f.secrets) ELSE d

(***************************************************************************)
(* qrcode_util.decode_qrcode and pyotp.parse_uri                           *)
(***************************************************************************)
decode_qrcode(q) ==
    IF ~q.is_file THEN [err |-> "FileNotFoundError", data |-> <<>>]
    ELSE IF q.ext \notin {"svg", "png", "jpg", "jpeg", "bmp", "tiff"}
    THEN [err |-> "ValueError", data |-> <<>>]
    ELSE [err |-> "", data |-> SelectSeq(q.data, LAMBDA s : s # "")]

\* pyotp.parse_uri on the URIs of the input universe
ParseUri(u) ==
    CASE u = U1 -> [ok |-> TRUE, name |-> "u1", issuer |-> "X", secret |-> "AAAA"]
      [] u = U2 -> [ok |-> TRUE, name |-> "u2", issuer |-> "Y", secret |-> "BBBB"]
      [] OTHER  -> [ok |-> FALSE]

(***************************************************************************)
(* SecretMgr.register_secret                                               *)
(***************************************************************************)
\* faulty variant: every record of the call gets the candidate name
SecName_NoSuffix(name, cnt) == name

\* line 160
SecName(name, cnt) == IF cnt = 1 THEN name ELSE name \o "_" \o ToString(cnt)

\* the loop of lines 153-177: [err, data, result] once it ends or raises
RECURSIVE RegisterLoop(_, _, _, _, _)
RegisterLoop(d, name, qrc_datas, cnt, result) ==
    IF qrc_datas = <<>> THEN [err |-> "", data |-> d, result |-> result]
    ELSE LET totp == ParseUri(Head(qrc_datas)) IN
         IF ~totp.ok
         THEN [err |-> "ValueError", data |-> d, result |-> result]
         ELSE LET sec_name == SecName(name, cnt)
                  sec_data == [name |-> sec_name, account |-> totp.name,
                               issuer |-> totp.issuer, secret |-> totp.secret]
              IN RegisterLoop(DictSet(d, sec_name, sec_data), name,
                              Tail(qrc_datas), cnt + 1, Append(result, sec_data))

\* faulty variant: the store is rebuilt from the records of the call
register_secret_Fresh(d, name, qrc_datas) ==
    RegisterLoop(<<>>, name, qrc_datas, 1, <<>>)

register_secret(d, name, qrc_datas) == RegisterLoop(d, name, qrc_datas, 1, <<>>)

(***************************************************************************)
(* Initial state: every Session has been constructed and calls acquire;    *)
(* the path holds any file a user may have left there, with no backup and  *)
(* no temporary file.                                                      *)
(***************************************************************************)
NoSnap == [state |-> "none", file |-> Absent, bak |-> Absent, new |-> Absent]
NoSave == [saved |-> FALSE, data |-> <<>>]
NoTask == [name |-> "", qr |-> [is_file |-> FALSE, ext |-> "", data |-> <<>>]]
NoCall == [op |-> "none"]

Init ==
    /\ file \in InitFiles
    /\ bak = Absent
    /\ tmp = Absent
    /\ lock = {}
    /\ pc = [s \in Sess |-> "waiting"]
    /\ secret_data = [s \in Sess |-> <<>>]
    /\ err = [s \in Sess |-> ""]
    /\ ret = [s \in Sess |-> <<>>]
    /\ clock = 1
    /\ snap = NoSnap
    /\ lastSaved = NoSave
    /\ file0 = file
    /\ task = [s \in Sess |-> NoTask]
    /\ call = NoCall

(***************************************************************************)
(* SecretMgr.get_secret, gen_totp_token, remove_secret, rename_secret      *)
(***************************************************************************)
\* faulty variant: an empty secret counts as a secret
HasSecret_EmptyOk(d, key) == key \in Keys(d) /\ "secret" \in DOMAIN DictGet(d, key)

\* get_secret: TRUE when the `secret` of the record under key is truthy
HasSecret(d, key) == key \in Keys(d) /\ Truthy(DictGet(d, key), "secret")

\* gen_totp_token: the token stands for pyotp.TOTP(secret).now()
gen_totp_token(d, token_name) ==
    IF HasSecret(d, token_name)
    THEN [err |-> "", token |-> "totp:" \o DictGet(d, token_name).secret]
    ELSE [err |-> "ValueError", token |-> ""]

\* faulty variant: a name that is present is reported but not deleted
remove_secret_KeepsEntry(d, name) ==
    IF name \in Keys(d)
    THEN [data |-> d, result |-> TRUE]
    ELSE [data |-> d, result |-> FALSE]

\* faulty variant: a name that is absent is reported as removed
remove_secret_ReportsAbsent(d, name) ==
    [data |-> DictDel(d, name), result |-> TRUE]

remove_secret(d, name) ==
    IF name \in Keys(d)
    THEN [data |-> DictDel(d, name), result |-> TRUE]
    ELSE [data |-> d, result |-> FALSE]

\* faulty variant: an absent old_name leaves an entry under new_name
rename_secret_CreatesNew(d, old_name, new_name) ==
    IF old_name \in Keys(d)
    THEN [data |-> DictDel(DictSet(d, new_name,
                                   [DictGet(d, old_name) EXCEPT !.name = new_name]),
                           old_name),
          result |-> TRUE]
    ELSE [data |-> DictSet(d, new_name, [name |-> new_name]), result |-> FALSE]

\* faulty variant: the record moves to new_name with its old name field
rename_secret_KeepsName(d, old_name, new_name) ==
    IF old_name \in Keys(d)
    THEN [data |-> DictDel(DictSet(d, new_name, DictGet(d, old_name)), old_name),
          result |-> TRUE]
    ELSE [data |-> d, result |-> FALSE]

\* faulty variant: a new_name that is taken is refused
rename_secret_NoOverwrite(d, old_name, new_name) ==
    IF old_name \in Keys(d) /\ new_name \notin Keys(d)
    THEN LET secret == [DictGet(d, old_name) EXCEPT !.name = new_name]
         IN [data |-> DictDel(DictSet(d, new_name, secret), old_name),
             result |-> TRUE]
    ELSE [data |-> d, result |-> FALSE]

\* lines 258-262: the record is renamed in place, stored under new_name,
\* and then the entry under old_name is deleted
rename_secret(d, old_name, new_name) ==
    IF old_name \in Keys(d)
    THEN LET secret == [DictGet(d, old_name) EXCEPT !.name = new_name]
             d1 == DictSet(d, old_name, secret)
             d2 == DictSet(d1, new_name, secret)
         IN [data |-> DictDel(d2, old_name), result |-> TRUE]
    ELSE [data |-> d, result |-> FALSE]

(***************************************************************************)
(* SecretMgr.remove_secrets(names) and list_secrets(include_secret): the   *)
(* callers in func_impl.py use them; they follow the specification.        *)
(***************************************************************************)
RECURSIVE remove_secrets(_, _, _)
remove_secrets(d, names, removed) ==
    IF names = <<>> THEN [data |-> d, result |-> removed]
    ELSE LET r == remove_secret(d, Head(names)) IN
         remove_secrets(r.data, Tail(names),
                        IF r.result THEN Append(removed, Head(names)) ELSE removed)

WithoutSecret(rec) == [f \in (DOMAIN rec) \ {"secret"} |-> rec[f]]

\* faulty variant: the records are returned as the store holds them
list_secrets_All(d, include_secret) == Values(d)

list_secrets(d, include_secret) ==
    IF include_secret THEN Values(d)
    ELSE [i \in DOMAIN d |-> WithoutSecret(d[i].v)]

(***************************************************************************)
(* Session: `with SecretMgr(path) as mgr:`                                 *)
(***************************************************************************)
SavePcs == {"save_dump", "save_chmod", "save_unlink", "save_tobak",
            "save_rename", "save_final"}
BodyPcs == {"held", "loaded", "saving", "exit", "raised"} \cup SavePcs

InScope(s) == pc[s] \in BodyPcs

\* faulty variant: the lock file a Session left behind keeps the others out
Acquire_StaleLockFile(s) ==
    /\ pc[s] = "waiting"
    /\ lock = {}
    /\ \A t \in Sess : pc[t] # "done"
    /\ lock' = {s}
    /\ pc' = [pc EXCEPT ![s] = "held"]
    /\ UNCHANGED <<file, bak, tmp, secret_data, err, ret, clock, snap,
                   lastSaved, file0, task, call>>

\* __enter__: acquire returns once no other Session holds the lock
Acquire(s) ==
    /\ pc[s] = "waiting"
    /\ lock = {}
    /\ lock' = {s}
    /\ pc' = [pc EXCEPT ![s] = "held"]
    /\ UNCHANGED <<file, bak, tmp, secret_data, err, ret, clock, snap,
                   lastSaved, file0, task, call>>

\* faulty variant: the Session that timed out goes on into the body without the lock
Timeout_Proceeds(s) ==
    /\ pc[s] = "waiting"
    /\ lock # {}
    /\ pc' = [pc EXCEPT ![s] = "held"]
    /\ err' = [err EXCEPT ![s] = "Timeout"]
    /\ UNCHANGED <<file, bak, tmp, lock, secret_data, ret, clock, snap,
                   lastSaved, file0, task, call>>

\* the lock stayed with another Session for the whole timeout
Timeout(s) ==
    /\ pc[s] = "waiting"
    /\ lock # {}
    /\ pc' = [pc EXCEPT ![s] = "done"]
    /\ err' = [err EXCEPT ![s] = "Timeout"]
    /\ UNCHANGED <<file, bak, tmp, lock, secret_data, ret, clock, snap,
                   lastSaved, file0, task, call>>

\* faulty variant: release only when the body ended without an exception
Exit_KeepOnError(s) ==
    /\ pc[s] \in {"exit", "raised"}
    /\ lock' = IF pc[s] = "raised" THEN lock ELSE lock \ {s}
    /\ pc' = [pc EXCEPT ![s] = "done"]
    /\ secret_data' = [secret_data EXCEPT ![s] = <<>>]
    /\ ret' = [ret EXCEPT ![s] = <<>>]
    /\ UNCHANGED <<file, bak, tmp, err, clock, snap, lastSaved, file0, task, call>>

\* faulty variant: a body that raised never leaves the scope
Exit_NotAfterRaise(s) ==
    /\ pc[s] = "exit"
    /\ lock' = lock \ {s}
    /\ pc' = [pc EXCEPT ![s] = "done"]
    /\ secret_data' = [secret_data EXCEPT ![s] = <<>>]
    /\ ret' = [ret EXCEPT ![s] = <<>>]
    /\ UNCHANGED <<file, bak, tmp, err, clock, snap, lastSaved, file0, task, call>>

\* __exit__, after the body ended or raised: release
Exit(s) ==
    /\ pc[s] \in {"exit", "raised"}
    /\ lock' = lock \ {s}
    /\ pc' = [pc EXCEPT ![s] = "done"]
    /\ secret_data' = [secret_data EXCEPT ![s] = <<>>]
    /\ ret' = [ret EXCEPT ![s] = <<>>]
    /\ UNCHANGED <<file, bak, tmp, err, clock, snap, lastSaved, file0, task, call>>

\* the process of a Session dies; the operating system drops its lock
Crash(s) ==
    /\ InScope(s)
    /\ lock' = lock \ {s}
    /\ pc' = [pc EXCEPT ![s] = "done"]
    /\ err' = [err EXCEPT ![s] = "crashed"]
    /\ secret_data' = [secret_data EXCEPT ![s] = <<>>]
    /\ ret' = [ret EXCEPT ![s] = <<>>]
    /\ snap' = IF pc[s] \in SavePcs THEN [snap EXCEPT !.state = "crashed"] ELSE snap
    /\ UNCHANGED <<file, bak, tmp, clock, lastSaved, file0, task, call>>

(***************************************************************************)
(* mgr.load(), the first call of every operation of func_impl.py           *)
(***************************************************************************)
\* faulty variant: the operation loads before its `with` statement has the lock
Load_BeforeWith(s) ==
    /\ pc[s] \in {"waiting", "held"}
    /\ file' = LoadFixPermissions(file)
    /\ secret_data' = [secret_data EXCEPT ![s] = LoadData(@, file)]
    /\ err' = [err EXCEPT ![s] = LoadError(file)]
    /\ pc' = [pc EXCEPT ![s] = IF LoadError(file) = "" THEN "loaded" ELSE "raised"]
    /\ UNCHANGED <<bak, tmp, lock, ret, clock, snap, lastSaved, file0, task, call>>

\* faulty variant: a missing file is taken for a store without entries
Load_MissingIsEmpty(s) ==
    /\ pc[s] = "held"
    /\ file' = LoadFixPermissions(file)
    /\ secret_data' = [secret_data EXCEPT ![s] =
                          IF file = Absent THEN @ ELSE LoadData(@, file)]
    /\ err' = [err EXCEPT ![s] = IF file = Absent THEN "" ELSE LoadError(file)]
    /\ pc' = [pc EXCEPT ![s] = IF file = Absent \/ LoadError(file) = ""
                                THEN "loaded" ELSE "raised"]
    /\ UNCHANGED <<bak, tmp, lock, ret, clock, snap, lastSaved, file0, task, call>>

\* load is the first statement inside `with SecretMgr(...)`
Load(s) ==
    /\ pc[s] = "held"
    /\ file' = LoadFixPermissions(file)
    /\ secret_data' = [secret_data EXCEPT ![s] = LoadData(@, file)]
    /\ err' = [err EXCEPT ![s] = LoadError(file)]
    /\ pc' = [pc EXCEPT ![s] = IF LoadError(file) = "" THEN "loaded" ELSE "raised"]
    /\ UNCHANGED <<bak, tmp, lock, ret, clock, snap, lastSaved, file0, task, call>>


(***************************************************************************)
(* func_impl.py: what each operation does between load and save            *)
(***************************************************************************)
\* faulty variant: secret_data is one dictionary shared by every SecretMgr
RegisterWith_Shared(s, new_name, q) ==
    LET dec == decode_qrcode(q)
        r == register_secret(secret_data[s], new_name, dec.data)
    IN /\ pc[s] = "loaded"
       /\ IF dec.err # ""
          THEN /\ err' = [err EXCEPT ![s] = dec.err]
               /\ pc' = [pc EXCEPT ![s] = "raised"]
               /\ UNCHANGED <<secret_data, ret>>
          ELSE /\ secret_data' = [t \in Sess |-> r.data]
               /\ err' = [err EXCEPT ![s] = r.err]
               /\ ret' = [ret EXCEPT ![s] = IF r.err = "" THEN r.result ELSE <<>>]
               /\ pc' = [pc EXCEPT ![s] = IF r.err = "" THEN "saving" ELSE "raised"]
       /\ UNCHANGED <<file, bak, tmp, lock, clock, snap, lastSaved, file0, task, call>>

\* faulty variant: the store is saved although register_secret raised
RegisterWith_SavesOnError(s, new_name, q) ==
    LET dec == decode_qrcode(q)
        r == register_secret(secret_data[s], new_name, dec.data)
    IN /\ pc[s] = "loaded"
       /\ IF dec.err # ""
          THEN /\ err' = [err EXCEPT ![s] = dec.err]
               /\ pc' = [pc EXCEPT ![s] = "raised"]
               /\ UNCHANGED <<secret_data, ret>>
          ELSE /\ secret_data' = [secret_data EXCEPT ![s] = r.data]
               /\ err' = [err EXCEPT ![s] = r.err]
               /\ ret' = [ret EXCEPT ![s] = IF r.err = "" THEN r.result ELSE <<>>]
               /\ pc' = [pc EXCEPT ![s] = "saving"]
       /\ UNCHANGED <<file, bak, tmp, lock, clock, snap, lastSaved, file0, task, call>>

\* register_secret, lines 32-33, for one new_name and QR file
RegisterWith(s, new_name, q) ==
    LET dec == decode_qrcode(q)
        r == register_secret(secret_data[s], new_name, dec.data)
    IN /\ pc[s] = "loaded"
       /\ IF dec.err # ""
          THEN /\ err' = [err EXCEPT ![s] = dec.err]
               /\ pc' = [pc EXCEPT ![s] = "raised"]
               /\ UNCHANGED <<secret_data, ret>>
          ELSE /\ secret_data' = [secret_data EXCEPT ![s] = r.data]
               /\ err' = [err EXCEPT ![s] = r.err]
               /\ ret' = [ret EXCEPT ![s] = IF r.err = "" THEN r.result ELSE <<>>]
               /\ pc' = [pc EXCEPT ![s] = IF r.err = "" THEN "saving" ELSE "raised"]
       /\ UNCHANGED <<file, bak, tmp, lock, clock, snap, lastSaved, file0, task, call>>

RegisterFromURIs(s) ==
    \E new_name \in Names, q \in QrFiles :
        /\ task[s] = NoTask
        /\ RegisterWith(s, new_name, q)

\* gen_token, line 58
GenerateToken(s) ==
    \E name \in Names :
        LET r == gen_totp_token(secret_data[s], name) IN
        /\ pc[s] = "loaded"
        /\ task[s] = NoTask
        /\ err' = [err EXCEPT ![s] = r.err]
        /\ ret' = [ret EXCEPT ![s] = IF r.err = "" THEN <<[token |-> r.token]>> ELSE <<>>]
        /\ pc' = [pc EXCEPT ![s] = IF r.err = "" THEN "exit" ELSE "raised"]
        /\ UNCHANGED <<file, bak, tmp, lock, secret_data, clock, snap,
                       lastSaved, file0, task, call>>

\* faulty variant: the secret is taken out of the records of the store itself
ListSecrets_StripsStore(s) ==
    /\ pc[s] = "loaded"
    /\ task[s] = NoTask
    /\ ret' = [ret EXCEPT ![s] = list_secrets(secret_data[s], FALSE)]
    /\ secret_data' = [secret_data EXCEPT ![s] =
                          [i \in DOMAIN @ |-> [k |-> @[i].k, v |-> WithoutSecret(@[i].v)]]]
    /\ pc' = [pc EXCEPT ![s] = "exit"]
    /\ UNCHANGED <<file, bak, tmp, lock, err, clock, snap,
                   lastSaved, file0, task, call>>

\* get_secret_list, line 80
ListSecrets(s) ==
    /\ pc[s] = "loaded"
    /\ task[s] = NoTask
    /\ ret' = [ret EXCEPT ![s] = list_secrets(secret_data[s], FALSE)]
    /\ pc' = [pc EXCEPT ![s] = "exit"]
    /\ UNCHANGED <<file, bak, tmp, lock, secret_data, err, clock, snap,
                   lastSaved, file0, task, call>>

NameLists == { <<"b", "a">>, <<"a", "a">>, <<"zz">> }

\* faulty variant: save whether or not something was removed
RemoveSecrets_AlwaysSaves(s) ==
    \E names \in NameLists :
        LET r == remove_secrets(secret_data[s], names, <<>>) IN
        /\ pc[s] = "loaded"
        /\ task[s] = NoTask
        /\ secret_data' = [secret_data EXCEPT ![s] = r.data]
        /\ ret' = [ret EXCEPT ![s] = [i \in DOMAIN r.result |-> [name |-> r.result[i]]]]
        /\ pc' = [pc EXCEPT ![s] = "saving"]
        /\ UNCHANGED <<file, bak, tmp, lock, err, clock, snap, lastSaved,
                       file0, task, call>>

\* remove_secrets, lines 108-110: save only when something was removed
RemoveSecrets(s) ==
    \E names \in NameLists :
        LET r == remove_secrets(secret_data[s], names, <<>>) IN
        /\ pc[s] = "loaded"
        /\ task[s] = NoTask
        /\ secret_data' = [secret_data EXCEPT ![s] = r.data]
        /\ ret' = [ret EXCEPT ![s] = [i \in DOMAIN r.result |-> [name |-> r.result[i]]]]
        /\ pc' = [pc EXCEPT ![s] = IF r.result # <<>> THEN "saving" ELSE "exit"]
        /\ UNCHANGED <<file, bak, tmp, lock, err, clock, snap, lastSaved,
                       file0, task, call>>

\* rename_secret, lines 140-142: save only when the rename succeeded
RenameSecret(s) ==
    \E name \in Names, new_name \in Names :
        LET r == rename_secret(secret_data[s], name, new_name) IN
        /\ pc[s] = "loaded"
        /\ task[s] = NoTask
        /\ secret_data' = [secret_data EXCEPT ![s] = r.data]
        /\ ret' = [ret EXCEPT ![s] = <<[renamed |-> r.result]>>]
        /\ pc' = [pc EXCEPT ![s] = IF r.result THEN "saving" ELSE "exit"]
        /\ UNCHANGED <<file, bak, tmp, lock, err, clock, snap, lastSaved,
                       file0, task, call>>

(***************************************************************************)
(* SecretMgr.save, one action per file-system call.  Every call that can   *)
(* raise OSError either succeeds or fails; save turns the failure into     *)
(* IOError (lines 221-223).  The parent directory exists: __enter__ made   *)
(* it for the lock file.                                                   *)
(***************************************************************************)
SaveFails(s, state) ==
    /\ err' = [err EXCEPT ![s] = "IOError"]
    /\ pc' = [pc EXCEPT ![s] = "raised"]
    /\ snap' = [snap EXCEPT !.state = state]

\* line 193: open(work_path, 'w') creates or truncates the temporary file
SaveOpen(s) ==
    /\ pc[s] = "saving"
    /\ \E ok \in BOOLEAN :
        IF ok
        THEN /\ tmp' = Other("empty", IF tmp.kind = "absent" THEN UmaskDefault
                                                              ELSE tmp.mode)
             /\ snap' = [state |-> "running", file |-> file, bak |-> bak,
                         new |-> Absent]
             /\ pc' = [pc EXCEPT ![s] = "save_dump"]
             /\ UNCHANGED err
        ELSE /\ err' = [err EXCEPT ![s] = "IOError"]
             /\ pc' = [pc EXCEPT ![s] = "raised"]
             /\ snap' = [state |-> "failed_open", file |-> file, bak |-> bak,
                         new |-> Absent]
             /\ UNCHANGED tmp
    /\ UNCHANGED <<file, bak, lock, secret_data, ret, clock, lastSaved, file0, task, call>>

\* faulty variant: the document is written over the secrets file itself
SaveDump_InPlace(s) ==
    /\ pc[s] = "save_dump"
    /\ \E ok \in BOOLEAN :
        IF ok
        THEN /\ file' = Doc(list_secrets(secret_data[s], TRUE), clock, file.mode)
             /\ snap' = [snap EXCEPT !.new = Doc(list_secrets(secret_data[s], TRUE),
                                                 clock, OwnerOnly)]
             /\ pc' = [pc EXCEPT ![s] = "save_chmod"]
             /\ UNCHANGED err
        ELSE /\ file' = Other("partial", file.mode)
             /\ SaveFails(s, "failed_dump")
    /\ clock' = clock + 1
    /\ UNCHANGED <<tmp, bak, lock, secret_data, ret, lastSaved, file0, task, call>>

\* lines 194-204: the document is written and the file closed
SaveDump(s) ==
    /\ pc[s] = "save_dump"
    /\ \E ok \in BOOLEAN :
        IF ok
        THEN /\ tmp' = Doc(list_secrets(secret_data[s], TRUE), clock, tmp.mode)
             /\ snap' = [snap EXCEPT !.new = Doc(list_secrets(secret_data[s], TRUE),
                                                 clock, OwnerOnly)]
             /\ pc' = [pc EXCEPT ![s] = "save_chmod"]
             /\ UNCHANGED err
        ELSE /\ tmp' = Other("partial", tmp.mode)
             /\ SaveFails(s, "failed_dump")
    /\ clock' = clock + 1
    /\ UNCHANGED <<file, bak, lock, secret_data, ret, lastSaved, file0, task, call>>

\* line 207: set_secure_permissions(work_path), which never raises
SaveChmod(s) ==
    /\ pc[s] = "save_chmod"
    /\ tmp' = set_secure_permissions(tmp)
    /\ pc' = [pc EXCEPT ![s] = "save_unlink"]
    /\ UNCHANGED <<file, bak, lock, secret_data, err, ret, clock, snap,
                   lastSaved, file0, task, call>>

\* faulty variant: a backup already there is kept and the file at path is
\* left for the final rename to replace
SaveUnlinkBak_KeepOld(s) ==
    /\ pc[s] = "save_unlink"
    /\ IF file.kind = "absent" \/ bak.kind # "absent"
       THEN pc' = [pc EXCEPT ![s] = "save_rename"]
       ELSE pc' = [pc EXCEPT ![s] = "save_tobak"]
    /\ UNCHANGED <<bak, err, snap>>
    /\ UNCHANGED <<file, tmp, lock, secret_data, ret, clock, lastSaved, file0, task, call>>

\* lines 210-213: when path is a file, a backup already there is deleted
SaveUnlinkBak(s) ==
    /\ pc[s] = "save_unlink"
    /\ IF file.kind = "absent"
       THEN /\ pc' = [pc EXCEPT ![s] = "save_rename"]
            /\ UNCHANGED <<bak, err, snap>>
       ELSE IF bak.kind = "absent"
       THEN /\ pc' = [pc EXCEPT ![s] = "save_tobak"]
            /\ UNCHANGED <<bak, err, snap>>
       ELSE \E ok \in BOOLEAN :
            IF ok
            THEN /\ bak' = Absent
                 /\ pc' = [pc EXCEPT ![s] = "save_tobak"]
                 /\ UNCHANGED <<err, snap>>
            ELSE /\ SaveFails(s, "failed_unlink")
                 /\ UNCHANGED bak
    /\ UNCHANGED <<file, tmp, lock, secret_data, ret, clock, lastSaved, file0, task, call>>

\* faulty variant: the old file is deleted instead of being renamed to the backup
SaveRenameToBak_Unlink(s) ==
    /\ pc[s] = "save_tobak"
    /\ file' = Absent
    /\ pc' = [pc EXCEPT ![s] = "save_rename"]
    /\ UNCHANGED <<bak, err, snap>>
    /\ UNCHANGED <<tmp, lock, secret_data, ret, clock, lastSaved, file0, task, call>>

\* line 214: self.secrets_file.rename(backup_path)
SaveRenameToBak(s) ==
    /\ pc[s] = "save_tobak"
    /\ \E ok \in BOOLEAN :
        IF ok
        THEN /\ bak' = file
             /\ file' = Absent
             /\ pc' = [pc EXCEPT ![s] = "save_rename"]
             /\ UNCHANGED <<err, snap>>
        ELSE /\ SaveFails(s, "failed_tobak")
             /\ UNCHANGED <<file, bak>>
    /\ UNCHANGED <<tmp, lock, secret_data, ret, clock, lastSaved, file0, task, call>>

\* line 215: work_path.rename(self.secrets_file)
SaveRename(s) ==
    /\ pc[s] = "save_rename"
    /\ \E ok \in BOOLEAN :
        IF ok
        THEN /\ file' = tmp
             /\ tmp' = Absent
             /\ lastSaved' = [saved |-> TRUE, data |-> secret_data[s]]
             /\ pc' = [pc EXCEPT ![s] = "save_final"]
             /\ UNCHANGED <<err, snap>>
        ELSE /\ SaveFails(s, "failed_rename")
             /\ UNCHANGED <<file, tmp, lastSaved>>
    /\ UNCHANGED <<bak, lock, secret_data, ret, clock, file0, task, call>>

\* line 218: set_secure_permissions(self.secrets_file); save returns
SaveFinal(s) ==
    /\ pc[s] = "save_final"
    /\ file' = set_secure_permissions(file)
    /\ snap' = [snap EXCEPT !.state = "done"]
    /\ pc' = [pc EXCEPT ![s] = "exit"]
    /\ UNCHANGED <<bak, tmp, lock, secret_data, err, ret, clock, lastSaved,
                   file0, task, call>>

(***************************************************************************)
(* Specification: Sessions open, run one operation of func_impl.py each    *)
(* time, and may die at any point.                                         *)
(***************************************************************************)
Next ==
    \E s \in Sess :
        \/ Acquire(s)
        \/ Timeout(s)
        \/ Load(s)
        \/ RegisterFromURIs(s)
        \/ GenerateToken(s)
        \/ ListSecrets(s)
        \/ RemoveSecrets(s)
        \/ RenameSecret(s)
        \/ SaveOpen(s)
        \/ SaveDump(s)
        \/ SaveChmod(s)
        \/ SaveUnlinkBak(s)
        \/ SaveRenameToBak(s)
        \/ SaveRename(s)
        \/ SaveFinal(s)
        \/ Exit(s)
        \/ Crash(s)

Spec == Init /\ [][Next]_vars

\* what the process of Session s does next, as long as it lives
Step(s) ==
    \/ Acquire(s)
    \/ Timeout(s)
    \/ Load(s)
    \/ RegisterFromURIs(s)
    \/ GenerateToken(s)
    \/ ListSecrets(s)
    \/ RemoveSecrets(s)
    \/ RenameSecret(s)
    \/ SaveOpen(s)
    \/ SaveDump(s)
    \/ SaveChmod(s)
    \/ SaveUnlinkBak(s)
    \/ SaveRenameToBak(s)
    \/ SaveRename(s)
    \/ SaveFinal(s)
    \/ Exit(s)

(***************************************************************************)
(* Scenario of test_func_impl.py: the Sessions of Spec on a path with no   *)
(* file, with invalid JSON, or with one or two records.                    *)
(***************************************************************************)
OpsFiles ==
    {Absent, Other("badjson", OwnerOnly), Doc(<<RecA>>, 0, UmaskDefault),
     Doc(<<RecA, RecB>>, 0, OwnerOnly)}

OpsInit == Init /\ file \in OpsFiles

SpecOps == OpsInit /\ [][Next]_vars

(***************************************************************************)
(* Scenario of test_timeout_handling: Sessions whose processes live, on a  *)
(* path with no file, an unreadable file or one record.  Every process     *)
(* that can take a step is scheduled in the end.                           *)
(***************************************************************************)
TermFiles == {Absent, Other("badjson", OwnerOnly), Doc(<<RecA>>, 0, UmaskDefault)}

TermInit == Init /\ file \in TermFiles

TermNext == \E s \in Sess : Step(s)

SpecTerm == TermInit /\ [][TermNext]_vars /\ \A s \in Sess : WF_vars(Step(s))

(***************************************************************************)
(* The same scenario with two Sessions on the path, whatever the number of *)
(* SecretMgr objects constructed.                                          *)
(***************************************************************************)
PairSess == {1, 2}

PairNext == \E s \in PairSess : Step(s)

SpecPair == TermInit /\ [][PairNext]_vars /\ \A s \in PairSess : WF_vars(Step(s))

(***************************************************************************)
(* Scenario of test_concurrent_access_serialization: every Session is a   *)
(* worker that loads, registers one URI under its own name and saves.      *)
(***************************************************************************)
WorkerNames == Names \cup {"w"}
WorkerQr == { [is_file |-> TRUE, ext |-> "png", data |-> <<u>>] : u \in {U1, U2} }

WorkerRegister(s) ==
    /\ task[s] # NoTask
    /\ RegisterWith(s, task[s].name, task[s].qr)

WorkersInit ==
    /\ file \in InitFiles
    /\ bak = Absent
    /\ tmp = Absent
    /\ lock = {}
    /\ pc = [s \in Sess |-> "waiting"]
    /\ secret_data = [s \in Sess |-> <<>>]
    /\ err = [s \in Sess |-> ""]
    /\ ret = [s \in Sess |-> <<>>]
    /\ clock = 1
    /\ snap = NoSnap
    /\ lastSaved = NoSave
    /\ file0 = file
    /\ task \in [Sess -> [name : WorkerNames, qr : WorkerQr]]
    /\ \A s, t \in Sess : s # t => task[s].name # task[t].name
    /\ call = NoCall

WorkersNext ==
    \E s \in Sess :
        \/ Acquire(s)
        \/ Timeout(s)
        \/ Load(s)
        \/ WorkerRegister(s)
        \/ SaveOpen(s)
        \/ SaveDump(s)
        \/ SaveChmod(s)
        \/ SaveUnlinkBak(s)
        \/ SaveRenameToBak(s)
        \/ SaveRename(s)
        \/ SaveFinal(s)
        \/ Exit(s)

SpecWorkers == WorkersInit /\ [][WorkersNext]_vars

(***************************************************************************)
(* Scenario of test_secrets.py: one SecretMgr is constructed on the path   *)
(* and its methods are called directly, in any order, with no Session      *)
(* around them.  `call` records the last call: its arguments, what it      *)
(* returned and what it raised.                                            *)
(***************************************************************************)
Mgr == 1

StoreNames == Names \cup {"b"}
UriLists == { <<U2>>, <<U1, U2>>, <<BadUri>>, <<U1, BadUri>> }

\* the files load tells apart, one of each
StoreFiles ==
    {Absent, Other("notobject", OwnerOnly), Other("secrets_not_array", OwnerOnly),
     Doc(<<NonObject>>, 0, OwnerOnly), Doc(<<RecNoName, RecA>>, 0, OwnerOnly),
     Doc(<<RecA, RecB>>, 0, OwnerOnly)}

\* the calls stay within stores of at most MaxStore entries
Fits(d) == Len(d) <= MaxStore

StoreDone(d, c) ==
    /\ Fits(d)
    /\ secret_data' = [secret_data EXCEPT ![Mgr] = d]
    /\ call' = c
    /\ UNCHANGED <<bak, tmp, lock, pc, err, ret, clock, snap, lastSaved,
                   file0, task>>

\* mgr.load()
StoreLoad ==
    /\ file' = LoadFixPermissions(file)
    /\ StoreDone(LoadData(secret_data[Mgr], file),
                 [op |-> "load", err |-> LoadError(file)])

\* mgr.register_secret(name, qrc_datas)
StoreRegister ==
    \E name \in StoreNames, qrc_datas \in UriLists :
        LET r == register_secret(secret_data[Mgr], name, qrc_datas) IN
        /\ StoreDone(r.data,
                     [op |-> "register", name |-> name, qrc_datas |-> qrc_datas,
                      err |-> r.err, result |-> r.result])
        /\ UNCHANGED file

\* mgr.remove_secrets(names)
StoreRemove ==
    \E names \in NameLists :
        LET r == remove_secrets(secret_data[Mgr], names, <<>>) IN
        /\ StoreDone(r.data,
                     [op |-> "remove", names |-> names, err |-> "",
                      result |-> r.result])
        /\ UNCHANGED file

\* mgr.rename_secret(old_name, new_name)
StoreRename ==
    \E old_name \in StoreNames, new_name \in StoreNames :
        LET r == rename_secret(secret_data[Mgr], old_name, new_name) IN
        /\ StoreDone(r.data,
                     [op |-> "rename", old_name |-> old_name,
                      new_name |-> new_name, err |-> "",
                      result |-> r.result])
        /\ UNCHANGED file

StoreInit ==
    /\ file \in StoreFiles
    /\ bak = Absent
    /\ tmp = Absent
    /\ lock = {}
    /\ pc = [s \in Sess |-> "waiting"]
    /\ secret_data = [s \in Sess |-> <<>>]
    /\ err = [s \in Sess |-> ""]
    /\ ret = [s \in Sess |-> <<>>]
    /\ clock = 1
    /\ snap = NoSnap
    /\ lastSaved = NoSave
    /\ file0 = file
    /\ task = [s \in Sess |-> NoTask]
    /\ call = NoCall

StoreNext == StoreLoad \/ StoreRegister \/ StoreRemove \/ StoreRename

(***************************************************************************)
(* Scenario of test_init_* and test_gen_totp_token_*: a SecretMgr is        *)
(* constructed with some secrets_file argument, loads a file whose records *)
(* may lack a secret, and tokens are asked for between renames and         *)
(* removals.                                                               *)
(***************************************************************************)
\* the secrets_file argument of SecretMgr(...): None or a str
NoneArg == [is_none |-> TRUE, str |-> ""]
StrArg(str) == [is_none |-> FALSE, str |-> str]
PathArgs == {NoneArg, StrArg(""), StrArg("secrets.json"), StrArg("/tmp/s/secrets.json")}

DefaultPath == "~/.mktotp/data/secrets.json"

\* pathlib.Path(str): the empty string is the current directory
PathOf(str) == IF str = "" THEN "." ELSE str

\* __init__, lines 32-37: the path the SecretMgr is bound to
SecretMgrPath(secrets_file) ==
    IF secrets_file.is_none THEN DefaultPath ELSE PathOf(secrets_file.str)

RecNoSecret == [name |-> "b", account |-> "u2", issuer |-> "Y"]
RecEmptySecret == [name |-> "a", account |-> "u1", issuer |-> "X", secret |-> ""]

TokenFiles ==
    { Doc(secrets, 0, OwnerOnly) :
        secrets \in { <<>>, <<RecA, RecB>>, <<RecA, RecNoSecret>>,
                      <<RecEmptySecret, RecB>> } }

\* mgr.gen_totp_token(token_name)
StoreToken ==
    \E token_name \in StoreNames :
        LET r == gen_totp_token(secret_data[Mgr], token_name) IN
        /\ StoreDone(secret_data[Mgr],
                     [op |-> "token", token_name |-> token_name, err |-> r.err,
                      result |-> r.token])
        /\ UNCHANGED file

TokenInit ==
    /\ file \in TokenFiles
    /\ bak = Absent
    /\ tmp = Absent
    /\ lock = {}
    /\ pc = [s \in Sess |-> "waiting"]
    /\ secret_data = [s \in Sess |-> <<>>]
    /\ err = [s \in Sess |-> ""]
    /\ ret = [s \in Sess |-> <<>>]
    /\ clock = 1
    /\ snap = NoSnap
    /\ lastSaved = NoSave
    /\ file0 = file
    /\ task = [s \in Sess |-> NoTask]
    /\ \E secrets_file \in PathArgs :
          call = [op |-> "init", secrets_file |-> secrets_file,
                  path |-> SecretMgrPath(secrets_file)]

TokenNext == StoreLoad \/ StoreToken \/ StoreRemove \/ StoreRename

SpecToken == TokenInit /\ [][TokenNext]_vars

SpecStore == StoreInit /\ [][StoreNext]_vars

(***************************************************************************)
(* Scenario of test_permutil.py: one SecretMgr on a file left with any of  *)
(* several permission sets, by the user or, readable by everyone, by       *)
(* another user.                                                           *)
(***************************************************************************)
GroupOtherBits == {"gr", "gw", "gx", "or", "ow", "ox"}

PermModes ==
    { OwnerOnly,                                  \* 0o600
      UmaskDefault,                               \* 0o644
      {"ur", "uw", "gr", "gw", "or", "ow"},       \* 0o666
      {"ur", "uw", "gx", "ox"},                   \* 0o611
      {"ur", "uw", "ux", "gr", "gx", "or", "ox"} } \* 0o755

PermFiles ==
    { Doc(<<RecA, RecB>>, 0, mode) : mode \in PermModes }
    \cup { Other("badjson", UmaskDefault) }
    \cup { [kind |-> "doc", secrets |-> <<RecA, RecB>>, last_update |-> 0,
            mode |-> UmaskDefault, owner |-> "other"] }

PermInit ==
    /\ file \in PermFiles
    /\ bak = Absent
    /\ tmp = Absent
    /\ lock = {}
    /\ pc = [s \in Sess |-> "waiting"]
    /\ secret_data = [s \in Sess |-> <<>>]
    /\ err = [s \in Sess |-> ""]
    /\ ret = [s \in Sess |-> <<>>]
    /\ clock = 1
    /\ snap = NoSnap
    /\ lastSaved = NoSave
    /\ file0 = file
    /\ task = [s \in Sess |-> NoTask]
    /\ call = NoCall

PermNext == StoreLoad \/ StoreToken \/ StoreRename

SpecPerm == PermInit /\ [][PermNext]_vars

(***************************************************************************)
(* mcp_impl.py: the tool wrappers.  One caller calls the tools one after   *)
(* the other, so the lock is free at every call.  An exception is the name *)
(* of its type and the head of its message.                                *)
(***************************************************************************)
NoExc == [type |-> "", msg |-> ""]
Exc(type, msg) == [type |-> type, msg |-> msg]

\* the paths a caller passes: none, the secrets file of the behaviour, and a
\* file in a directory that does not exist
McpPaths == {"", "secrets.json", "nodir/secrets.json"}
McpNames == {"", " ", "a", "b"}
Strip(name) == IF name = " " THEN "" ELSE name

\* Path(file_path).exists() and Path(file_path).parent.exists()
PathExists(file_path, f) ==
    \/ PathOf(file_path) = "."
    \/ file_path = "secrets.json" /\ f.kind # "absent"
ParentExists(file_path) == file_path # "nodir/secrets.json"

\* faulty variant: every failure of the validation is a ValueError
validate_file_path_ValueError(file_path, operation, required, f) ==
    IF required /\ file_path = ""
    THEN Exc("ValueError", "File path is required for " \o operation)
    ELSE IF file_path # "" /\ required /\ ~PathExists(file_path, f)
    THEN Exc("ValueError", "File not found for " \o operation)
    ELSE IF file_path # "" /\ ~PathExists(file_path, f) /\ ~ParentExists(file_path)
    THEN Exc("ValueError", "Parent directory not found for " \o operation)
    ELSE NoExc

\* validate_file_path, with f the file at secrets.json
validate_file_path(file_path, operation, required, f) ==
    IF required /\ file_path = ""
    THEN Exc("ValueError", "File path is required for " \o operation)
    ELSE IF file_path # "" /\ required /\ ~PathExists(file_path, f)
    THEN Exc("FileNotFoundError", "File not found for " \o operation)
    ELSE IF file_path # "" /\ ~PathExists(file_path, f) /\ ~ParentExists(file_path)
    THEN Exc("FileNotFoundError", "Parent directory not found for " \o operation)
    ELSE NoExc

\* faulty variant: a name of blanks passes
validate_secret_name_NonEmptyOnly(name, operation) ==
    IF name = ""
    THEN Exc("ValueError", "Secret name cannot be empty for " \o operation)
    ELSE IF Len(Strip(name)) > 100
    THEN Exc("ValueError", "Secret name too long for " \o operation)
    ELSE NoExc

\* validate_secret_name
validate_secret_name(name, operation) ==
    IF name = "" \/ Strip(name) = ""
    THEN Exc("ValueError", "Secret name cannot be empty for " \o operation)
    ELSE IF Len(Strip(name)) > 100
    THEN Exc("ValueError", "Secret name too long for " \o operation)
    ELSE NoExc

\* the except clauses of handle_operation, for the exception func raised
handle_operation(operation, exc) ==
    CASE exc = "" -> NoExc
      [] exc = "FileNotFoundError" -> Exc("ValueError", "File not found in " \o operation)
      [] exc = "PermissionError" -> Exc("ValueError", "Permission denied in " \o operation)
      [] exc = "KeyError" -> Exc("ValueError", "Key not found in " \o operation)
      [] exc = "ValueError" -> Exc("ValueError", "Value error in " \o operation)
      [] OTHER -> Exc("ValueError", "Unexpected error in " \o operation)

\* the validation of secrets_file in every tool, lines 159-160
ValidateSecretsFile(secrets_file, operation, required, f) ==
    IF secrets_file # "" /\ Strip(secrets_file) # ""
    THEN validate_file_path(secrets_file, operation, required, f)
    ELSE NoExc

\* what mgr.load() raises in SecretMgr(secrets_file): open() of the
\* directory "." raises IsADirectoryError
McpLoadError(secrets_file, f) ==
    IF PathOf(secrets_file) = "." THEN "IsADirectoryError"
    ELSE IF ~ParentExists(secrets_file) THEN "FileNotFoundError"
    ELSE LoadError(f)

\* the first exception of two checks made one after the other
FirstExc(e1, e2) == IF e1 # NoExc THEN e1 ELSE e2

McpDone(c, f) ==
    /\ call' = c
    /\ file' = f
    /\ UNCHANGED <<bak, tmp, lock, pc, secret_data, err, ret, clock, snap,
                   lastSaved, file0, task>>

\* mktotp_generate_token_impl
McpGenerateToken ==
    \E secret_name \in McpNames, secrets_file \in McpPaths :
        LET op == "generate_token"
            invalid == FirstExc(validate_secret_name(secret_name, op),
                                ValidateSecretsFile(secrets_file, op, TRUE, file))
            loaded == McpLoadError(secrets_file, file)
            r == gen_totp_token(LoadData(<<>>, file), secret_name)
            raised == IF loaded # "" THEN loaded ELSE r.err
        IN IF invalid # NoExc
           THEN McpDone([op |-> op, secret_name |-> secret_name,
                         secrets_file |-> secrets_file, by |-> "validation",
                         raised |-> invalid, result |-> ""], file)
           ELSE McpDone([op |-> op, secret_name |-> secret_name,
                         secrets_file |-> secrets_file, by |-> "operation",
                         raised |-> handle_operation(op, raised),
                         result |-> IF raised = "" THEN r.token ELSE ""],
                        IF secrets_file = "secrets.json"
                        THEN LoadFixPermissions(file) ELSE file)

\* mktotp_get_secret_info_list_impl
McpGetSecretInfoList ==
    \E secrets_file \in McpPaths :
        LET op == "get_secret_info_list"
            invalid == ValidateSecretsFile(secrets_file, op, TRUE, file)
            raised == McpLoadError(secrets_file, file)
        IN IF invalid # NoExc
           THEN McpDone([op |-> op, secrets_file |-> secrets_file,
                         by |-> "validation", raised |-> invalid,
                         result |-> <<>>], file)
           ELSE McpDone([op |-> op, secrets_file |-> secrets_file,
                         by |-> "operation",
                         raised |-> handle_operation(op, raised),
                         result |-> IF raised = ""
                                    THEN list_secrets(LoadData(<<>>, file), FALSE)
                                    ELSE <<>>],
                        IF secrets_file = "secrets.json"
                        THEN LoadFixPermissions(file) ELSE file)

\* handle_operation on the functions of test_mcp_impl.py, lines 118-170
TestFuncs == {"", "FileNotFoundError", "PermissionError", "KeyError",
              "ValueError", "RuntimeError"}

McpHandleOperation ==
    \E exc \in TestFuncs :
        McpDone([op |-> "test_op", by |-> "operation",
                 raised |-> handle_operation("test_op", exc),
                 result |-> IF exc = "" THEN "result" ELSE ""], file)

McpOps == {"generate_token", "get_secret_info_list", "test_op"}

McpInit == Init

McpNext == McpGenerateToken \/ McpGetSecretInfoList \/ McpHandleOperation

SpecMcp == McpInit /\ [][McpNext]_vars

(***************************************************************************)
(* mcp_impl.py: the tools that write.  The caller's SecretMgr is Mgr; a    *)
(* tool call validates its arguments and then, under handle_operation,     *)
(* runs the operation of func_impl.py step by step: acquire, load, the     *)
(* change of the store, save, exit.  The caller waits for the return       *)
(* before the next call.                                                   *)
(***************************************************************************)
MaxToolSaves == 2

\* a name of 101 characters
LongName ==
    "aaaaaaaaaaaaaaaaaaaaaaaaaaaaaaaaaaaaaaaaaaaaaaaaaa" \o
    "aaaaaaaaaaaaaaaaaaaaaaaaaaaaaaaaaaaaaaaaaaaaaaaaaaa"

ToolNames == {"", " ", "a", "b", LongName}
ToolNameLists == { <<>>, <<"a">>, <<"a", " ">>, <<"zz">> }
ToolPaths == {"secrets.json", "nodir/secrets.json"}

\* the first exception of validate_secret_name over names, lines 226-227
RECURSIVE ValidateNames(_, _)
ValidateNames(names, operation) ==
    IF names = <<>> THEN NoExc
    ELSE FirstExc(validate_secret_name(Head(names), operation),
                  ValidateNames(Tail(names), operation))

\* the tool raised in its validation: no function of func_impl.py is called
ToolRejected(c) ==
    /\ call' = c
    /\ UNCHANGED <<file, bak, tmp, lock, pc, secret_data, err, ret, clock, snap,
                   lastSaved, file0, task>>

\* the tool calls handle_operation, which calls the function: a SecretMgr
\* is constructed and its scope is entered
ToolAccepted(c) ==
    /\ call' = c
    /\ pc' = [pc EXCEPT ![Mgr] = "waiting"]
    /\ err' = [err EXCEPT ![Mgr] = ""]
    /\ UNCHANGED <<file, bak, tmp, lock, secret_data, ret, clock, snap,
                   lastSaved, file0, task>>

\* mktotp_remove_secrets_impl, lines 221-239
ToolRemoveSecrets ==
    \E secret_names \in ToolNameLists, secrets_file \in ToolPaths :
        LET op == "remove_secrets"
            invalid ==
                FirstExc(IF secret_names = <<>>
                         THEN Exc("ValueError", "At least one secret name must be provided for removal")
                         ELSE NoExc,
                FirstExc(ValidateNames(secret_names, op),
                         ValidateSecretsFile(secrets_file, op, TRUE, file)))
            c == [op |-> op, secret_names |-> secret_names,
                  secrets_file |-> secrets_file]
        IN /\ pc[Mgr] = "idle"
           /\ clock <= MaxToolSaves
           /\ IF invalid # NoExc
              THEN ToolRejected(c @@ [by |-> "validation", raised |-> invalid])
              ELSE ToolAccepted(c @@ [by |-> "operation", raised |-> NoExc])

\* mktotp_rename_secret_impl, lines 263-281
ToolRenameSecret ==
    \E old_name \in ToolNames, new_name \in ToolNames, secrets_file \in ToolPaths :
        LET op == "rename_secret"
            invalid ==
                FirstExc(validate_secret_name(old_name, op),
                FirstExc(validate_secret_name(new_name, op),
                FirstExc(IF old_name = new_name
                         THEN Exc("ValueError", "Old name and new name cannot be the same")
                         ELSE NoExc,
                         ValidateSecretsFile(secrets_file, op, TRUE, file))))
            c == [op |-> op, old_name |-> old_name, new_name |-> new_name,
                  secrets_file |-> secrets_file]
        IN /\ pc[Mgr] = "idle"
           /\ clock <= MaxToolSaves
           /\ IF invalid # NoExc
              THEN ToolRejected(c @@ [by |-> "validation", raised |-> invalid])
              ELSE ToolAccepted(c @@ [by |-> "operation", raised |-> NoExc])

\* func_impl.remove_secrets, lines 108-110, and rename_secret, lines
\* 140-142, with the arguments of the call
ToolRun ==
    LET r == IF call.op = "remove_secrets"
             THEN remove_secrets(secret_data[Mgr], call.secret_names, <<>>)
             ELSE rename_secret(secret_data[Mgr], call.old_name, call.new_name)
        saves == IF call.op = "remove_secrets" THEN r.result # <<>> ELSE r.result
    IN /\ pc[Mgr] = "loaded"
       /\ secret_data' = [secret_data EXCEPT ![Mgr] = r.data]
       /\ ret' = [ret EXCEPT ![Mgr] = <<[result |-> r.result]>>]
       /\ pc' = [pc EXCEPT ![Mgr] = IF saves THEN "saving" ELSE "exit"]
       /\ UNCHANGED <<file, bak, tmp, lock, err, clock, snap, lastSaved,
                      file0, task, call>>

\* handle_operation returns the result or raises for the exception that
\* left the function
ToolReturn ==
    /\ pc[Mgr] = "done"
    /\ pc' = [pc EXCEPT ![Mgr] = "idle"]
    /\ call' = [call EXCEPT !.raised = handle_operation(call.op, err[Mgr])]
    /\ UNCHANGED <<file, bak, tmp, lock, secret_data, err, ret, clock, snap,
                   lastSaved, file0, task>>

ToolInit ==
    /\ file \in InitFiles
    /\ bak = Absent
    /\ tmp = Absent
    /\ lock = {}
    /\ pc = [s \in Sess |-> "idle"]
    /\ secret_data = [s \in Sess |-> <<>>]
    /\ err = [s \in Sess |-> ""]
    /\ ret = [s \in Sess |-> <<>>]
    /\ clock = 1
    /\ snap = NoSnap
    /\ lastSaved = NoSave
    /\ file0 = file
    /\ task = [s \in Sess |-> NoTask]
    /\ call = NoCall

ToolNext ==
    \/ ToolRemoveSecrets
    \/ ToolRenameSecret
    \/ Acquire(Mgr)
    \/ Load(Mgr)
    \/ ToolRun
    \/ SaveOpen(Mgr)
    \/ SaveDump(Mgr)
    \/ SaveChmod(Mgr)
    \/ SaveUnlinkBak(Mgr)
    \/ SaveRenameToBak(Mgr)
    \/ SaveRename(Mgr)
    \/ SaveFinal(Mgr)
    \/ Exit(Mgr)
    \/ ToolReturn

SpecTool == ToolInit /\ [][ToolNext]_vars

(***************************************************************************)
(* Scenario of test_filelock.py: Sessions that only read (load, list) and  *)
(* whose lock is released once more after the scope was left (the          *)
(* destructor, or an explicit mgr.lock.release()) or without ever having   *)
(* been acquired.                                                          *)
(***************************************************************************)
\* faulty variant: release frees the lock whoever holds it
Release_Force(s) ==
    /\ pc[s] = "done"
    /\ lock' = {}
    /\ call' = [op |-> "release", session |-> s, held |-> s \in lock, err |-> ""]
    /\ UNCHANGED <<file, bak, tmp, pc, secret_data, err, ret, clock, snap,
                   lastSaved, file0, task>>

\* release() by a Session outside its scope
Release(s) ==
    /\ pc[s] = "done"
    /\ lock' = lock \ {s}
    /\ call' = [op |-> "release", session |-> s, held |-> s \in lock, err |-> ""]
    /\ UNCHANGED <<file, bak, tmp, pc, secret_data, err, ret, clock, snap,
                   lastSaved, file0, task>>

LockNext ==
    \E s \in Sess :
        \/ Acquire(s)
        \/ Timeout(s)
        \/ Load(s)
        \/ ListSecrets(s)
        \/ Exit(s)
        \/ Release(s)

SpecLock == Init /\ [][LockNext]_vars

(***************************************************************************)
(* Properties                                                              *)
(***************************************************************************)

\* C1: at most one Session is inside its scope (from acquire to release,
\* which holds its load-to-save window) at any time, and that Session is
\* the one holding the lock.
C1_OneSessionInScope ==
    /\ Cardinality({ s \in Sess : InScope(s) }) <= 1
    /\ \A s \in Sess : InScope(s) => lock = {s}

\* a Session is in the middle of save while another waits for the lock
C1_Witness ==
    \E s, t \in Sess : s # t /\ pc[s] \in SavePcs /\ pc[t] = "waiting"

\* the record a worker registers
WorkerRecord(s) ==
    register_secret(<<>>, task[s].name, decode_qrcode(task[s].qr).data).result[1]

Contains(secrets, rec) == \E i \in DOMAIN secrets : secrets[i] = rec

\* C2 (as claimed): when every worker has loaded, registered under its own
\* name and saved, and none timed out or failed, the persisted document
\* holds every worker's record and every entry the store had before under
\* a name no worker used.
C2_NoLostUpdate ==
    (\A s \in Sess : pc[s] = "done" /\ err[s] = "")
    => /\ file.kind = "doc"
       /\ \A s \in Sess : Contains(file.secrets, WorkerRecord(s))
       /\ \A i \in DOMAIN LoadData(<<>>, file0) :
             LET e == LoadData(<<>>, file0)[i] IN
             (\A s \in Sess : task[s].name # e.k) => Contains(file.secrets, e.v)

\* the same for workers whose names are all non-empty
C2_NoLostUpdateNamed ==
    (\A s \in Sess : task[s].name # "") => C2_NoLostUpdate

\* C3 (as claimed): a Session that has just loaded holds exactly the store
\* the most recent save persisted.
C3_ReadAfterWrite ==
    \A s \in Sess :
        (pc[s] = "loaded" /\ lastSaved.saved) => secret_data[s] = lastSaved.data

\* the same when the saved store has no empty key
C3_ReadAfterWriteNamed ==
    \A s \in Sess :
        (pc[s] = "loaded" /\ lastSaved.saved /\ "" \notin Keys(lastSaved.data))
        => secret_data[s] = lastSaved.data

\* C4: a Session whose scope was exited, normally or by an exception, does
\* not hold the lock, and when no Session is inside its scope the lock is
\* free for the next acquire.
C4_ReleasedOnExit ==
    /\ \A s \in Sess : pc[s] = "done" => s \notin lock
    /\ (\A s \in Sess : ~InScope(s)) => lock = {}

\* a Session left its scope by the IOError of save and another one then
\* acquired the lock
C4_Witness ==
    \E s, t \in Sess :
        s # t /\ pc[s] = "done" /\ err[s] = "IOError" /\ lock = {t}

\* C5: the step in which acquire times out happens while another Session
\* holds the lock, leaves the lock, the files and every store as they are,
\* and ends the Session; a Session that timed out never takes another step.
C5_TimeoutStaysOut ==
    [][\A s \in Sess :
          /\ (err[s] # "Timeout" /\ err'[s] = "Timeout")
             => /\ lock # {} /\ s \notin lock /\ lock' = lock
                /\ pc[s] = "waiting" /\ pc'[s] = "done"
                /\ secret_data[s] = <<>>
                /\ <<file, bak, tmp, secret_data, lastSaved>>'
                     = <<file, bak, tmp, secret_data, lastSaved>>
          /\ err[s] = "Timeout"
             => /\ pc[s] = "done" /\ pc'[s] = "done"
                /\ secret_data'[s] = <<>>
                /\ s \notin lock']_vars

\* a Session timed out while the holder is in the middle of its save
C5_Witness ==
    \E s, t \in Sess :
        s # t /\ err[s] = "Timeout" /\ pc[s] = "done"
              /\ pc[t] \in SavePcs /\ lock = {t}

\* C6 (as claimed): after a crash inside save the file at path is the
\* complete document of before the save or the complete new document, and
\* load accepts it.
C6_CrashLeavesLoadableFile ==
    snap.state = "crashed"
    => /\ file = snap.file \/ (snap.new # Absent /\ file = snap.new)
       /\ LoadError(file) = ""

\* C6 (amended): after a crash inside save the file at path is exactly what
\* it was before the save, or the complete new document, or it is missing
\* and the backup is exactly what path held before the save.
C6_CrashLeavesOldNewOrBackup ==
    snap.state = "crashed"
    => \/ file = snap.file
       \/ snap.new # Absent /\ file = snap.new
       \/ file = Absent /\ bak = snap.file

\* a save crashed between its two renames
C6_Witness ==
    /\ snap.state = "crashed"
    /\ snap.file.kind = "doc"
    /\ file = Absent
    /\ bak = snap.file
    /\ tmp = snap.new

\* C7: when save raised while opening or writing the temporary file, the
\* file at path and the backup are what they were when save was called.
C7_FailedWriteTouchesNothing ==
    snap.state \in {"failed_open", "failed_dump"}
    => file = snap.file /\ bak = snap.bak

\* a dump failed half way while path held a document and a backup existed
C7_Witness ==
    /\ snap.state = "failed_dump"
    /\ tmp.kind = "partial"
    /\ file.kind = "doc"
    /\ bak.kind = "doc"
    /\ \E s \in Sess : err[s] = "IOError"

\* C8: after a save that found a file at path, the backup file exists and
\* is exactly the file that was at path when the save began.
C8_BackupIsPreviousFile ==
    (snap.state = "done" /\ snap.file # Absent)
    => bak # Absent /\ bak = snap.file

\* two saves in a row: the backup is the document the first one wrote
C8_Witness ==
    /\ snap.state = "done"
    /\ lastSaved.saved
    /\ file.kind = "doc" /\ bak.kind = "doc"
    /\ bak.last_update = 1
    /\ file.last_update = 2
    /\ bak = snap.file

\* C9 (as claimed): loading the file a save wrote into a fresh store gives
\* the saved store back: same keys, same records, same order.
C9_RoundTrip ==
    (lastSaved.saved /\ file.kind = "doc")
    => LoadData(<<>>, file) = lastSaved.data

\* the same for saved stores without an empty key
C9_RoundTripNamed ==
    (lastSaved.saved /\ file.kind = "doc" /\ "" \notin Keys(lastSaved.data))
    => LoadData(<<>>, file) = lastSaved.data

\* a file load must reject: missing, not JSON, not an object, `secrets` not
\* an array, or an array holding something that is not an object
Unloadable(f) ==
    \/ f.kind \in {"absent", "badjson", "notobject", "secrets_not_array"}
    \/ f.kind = "doc" /\ \E i \in DOMAIN f.secrets : ~IsDict(f.secrets[i])

\* C10 (as claimed): on such a file no operation gets past load, every
\* Session that loaded ends with the load error, and the file is untouched.
C10_BadFileIsNeverAStore ==
    Unloadable(file0)
    => /\ file = file0
       /\ \A s \in Sess :
             /\ pc[s] \notin ({"loaded", "saving", "exit"} \cup SavePcs)
             /\ pc[s] = "raised" => err[s] \in {"FileNotFoundError",
                                                "JSONDecodeError", "ValueError"}

\* the same without the array that holds a non-object
C10_RejectedFileIsNeverAStore ==
    (Unloadable(file0) /\ file0.kind # "doc") => C10_BadFileIsNeverAStore

LoadFollowsShape ==
    /\ file = Absent => call.err = "FileNotFoundError"
    /\ file.kind \in {"notobject", "secrets_not_array"} => call.err = "ValueError"
    /\ (file.kind = "doc" /\ \A i \in DOMAIN file.secrets : IsDict(file.secrets[i]))
       => /\ call.err = ""
          /\ \A i \in DOMAIN file.secrets :
                LET r == file.secrets[i] IN
                IF Truthy(r, "name")
                THEN r.name \in Keys(secret_data[Mgr])
                ELSE \A j \in DOMAIN secret_data[Mgr] : secret_data[Mgr][j].v # r

\* C12 (as claimed): load raises the not-found error for a missing file and
\* the format error for a top level that is not an object, for a `secrets`
\* that is not an array and for an array holding a non-object; it raises
\* nothing for an array of objects, of which it skips those without a name.
C12_LoadRejectsBadShapes ==
    call.op = "load"
    => /\ LoadFollowsShape
       /\ (file.kind = "doc" /\ \E i \in DOMAIN file.secrets : ~IsDict(file.secrets[i]))
          => call.err = "ValueError"

\* the same without the array that holds a non-object
C12_LoadRejectsOtherShapes ==
    call.op = "load" => LoadFollowsShape

AllParse(qrc_datas) == \A i \in DOMAIN qrc_datas : ParseUri(qrc_datas[i]).ok

\* C13 (as claimed): from every reachable store, register with a sequence
\* holding a URI that does not parse fails with the invalid-data error and
\* leaves the store exactly as it was.
C13_NoPartialRegistration ==
    \A name \in StoreNames, qrc_datas \in UriLists :
        LET r == register_secret(secret_data[Mgr], name, qrc_datas) IN
        ~AllParse(qrc_datas)
        => r.err = "ValueError" /\ r.data = secret_data[Mgr]

\* the same for sequences whose first URI is the one that does not parse,
\* and the error alone for the others
C13_FailsAndFirstBadChangesNothing ==
    \A name \in StoreNames, qrc_datas \in UriLists :
        LET r == register_secret(secret_data[Mgr], name, qrc_datas) IN
        ~AllParse(qrc_datas)
        => /\ r.err = "ValueError"
           /\ ~ParseUri(qrc_datas[1]).ok => r.data = secret_data[Mgr]

\* the name the N-th record of a register call is to get
DerivedName(name, n) == IF n = 1 THEN name ELSE name \o "_" \o ToString(n)

\* C14: from every reachable store, register(name, [u1..uk]) with all URIs
\* parsing raises nothing and returns k records in input order, the first
\* named name and the N-th named name_N, each with the account, issuer and
\* secret of its URI; the store then holds each returned record under its
\* name, and from the empty store its keys are exactly the derived names.
C14_RegisterNamesInOrder ==
    \A name \in StoreNames, qrc_datas \in UriLists :
        LET r == register_secret(secret_data[Mgr], name, qrc_datas) IN
        AllParse(qrc_datas)
        => /\ r.err = ""
           /\ Len(r.result) = Len(qrc_datas)
           /\ \A i \in DOMAIN qrc_datas :
                 LET totp == ParseUri(qrc_datas[i]) IN
                 /\ r.result[i] = [name |-> DerivedName(name, i),
                                   account |-> totp.name, issuer |-> totp.issuer,
                                   secret |-> totp.secret]
                 /\ DerivedName(name, i) \in Keys(r.data)
                 /\ DictGet(r.data, DerivedName(name, i)) = r.result[i]
           /\ secret_data[Mgr] = <<>>
              => Keys(r.data) = { DerivedName(name, i) : i \in DOMAIN qrc_datas }

\* register("a", [U1, U2]) was called on the empty store
C14_Witness ==
    /\ call.op = "register" /\ call.err = ""
    /\ call.name = "a" /\ call.qrc_datas = <<U1, U2>>
    /\ Len(call.result) = 2 /\ call.result[2].name = "a_2"
    /\ Keys(secret_data[Mgr]) = {"a", "a_2"}
    /\ Values(secret_data[Mgr]) = call.result

DerivedNames(name, qrc_datas) ==
    { DerivedName(name, i) : i \in DOMAIN qrc_datas }

Range(seq) == { seq[i] : i \in DOMAIN seq }

\* C16: from every reachable store, remove(names) deletes exactly the
\* listed names that are present, keeps every other entry as it was and in
\* its place, and returns the deleted names, each once.
C16_RemoveDeletesListedNames ==
    \A names \in NameLists :
        LET d == secret_data[Mgr]
            r == remove_secrets(d, names, <<>>)
        IN /\ r.data = SelectSeq(d, LAMBDA e : e.k \notin Range(names))
           /\ Range(r.result) = Keys(d) \cap Range(names)
           /\ \A i, j \in DOMAIN r.result : i # j => r.result[i] # r.result[j]

\* remove(["a", "a"]) was called on a store holding a and another entry
C16_Witness ==
    /\ call.op = "remove"
    /\ call.names = <<"a", "a">>
    /\ call.result = <<"a">>
    /\ secret_data[Mgr] # <<>>
    /\ "a" \notin Keys(secret_data[Mgr])

\* C17: from every reachable store, remove of names that are all absent
\* returns the empty list and leaves the store as it was.
C17_RemoveAbsentChangesNothing ==
    \A names \in NameLists :
        LET d == secret_data[Mgr]
            r == remove_secrets(d, names, <<>>)
        IN Range(names) \cap Keys(d) = {}
           => r.result = <<>> /\ r.data = d

\* remove(["zz"]) was called on a store of three entries
C17_Witness ==
    /\ call.op = "remove"
    /\ call.names = <<"zz">>
    /\ call.result = <<>>
    /\ Len(secret_data[Mgr]) = 3

\* what C18 says of rename(old_name, new_name) on store d
RenameMoves(d, old_name, new_name) ==
    LET r == rename_secret(d, old_name, new_name) IN
    /\ r.result = TRUE
    /\ new_name \in Keys(r.data)
    /\ DictGet(r.data, new_name) = [DictGet(d, old_name) EXCEPT !.name = new_name]

\* C18 (as claimed): from every reachable store, rename(old_name, new_name)
\* with old_name present returns true and leaves under new_name the former
\* record of old_name with its name field set to new_name, whether new_name
\* is new, already exists or equals old_name.
C18_RenameMovesRecord ==
    \A old_name \in StoreNames, new_name \in StoreNames :
        old_name \in Keys(secret_data[Mgr])
        => RenameMoves(secret_data[Mgr], old_name, new_name)

\* the same for new_name different from old_name
C18_RenameToOtherNameMovesRecord ==
    \A old_name \in StoreNames, new_name \in StoreNames :
        (old_name \in Keys(secret_data[Mgr]) /\ new_name # old_name)
        => RenameMoves(secret_data[Mgr], old_name, new_name)

\* C19: from every reachable store, rename(old_name, new_name) with
\* old_name absent returns false and leaves the store as it was.
C19_RenameAbsentChangesNothing ==
    \A old_name \in StoreNames, new_name \in StoreNames :
        LET r == rename_secret(secret_data[Mgr], old_name, new_name) IN
        old_name \notin Keys(secret_data[Mgr])
        => r.result = FALSE /\ r.data = secret_data[Mgr]

\* rename("b", "a") was called on a store that holds entries but neither
\* b nor a
C19_Witness ==
    /\ call.op = "rename"
    /\ call.old_name = "b" /\ call.new_name = "a"
    /\ call.result = FALSE
    /\ secret_data[Mgr] # <<>>
    /\ Keys(secret_data[Mgr]) \cap {"a", "b"} = {}

\* C20: in every reachable store each record has a name field and it
\* equals the key the store holds the record under.
C20_NameFieldIsKey ==
    \A i \in DOMAIN secret_data[Mgr] :
        LET e == secret_data[Mgr][i] IN
        "name" \in DOMAIN e.v /\ e.v.name = e.k

\* a store of three entries built by load and register in which an entry
\* was renamed to b
C20_Witness ==
    /\ call.op = "rename" /\ call.result = TRUE
    /\ call.old_name = "a" /\ call.new_name = "b"
    /\ Len(secret_data[Mgr]) = 3
    /\ "b" \in Keys(secret_data[Mgr])
    /\ "a_2" \in Keys(secret_data[Mgr])
    /\ file.kind = "doc"

\* C21 (as claimed): in every reachable store every key is a non-empty
\* string.
C21_KeysNonEmpty ==
    \A i \in DOMAIN secret_data[Mgr] : secret_data[Mgr][i].k # ""

\* no call with non-empty name arguments, and no load, brings an empty key
\* into a store that has none
C21_EmptyKeyOnlyFromEmptyName ==
    LET d == secret_data[Mgr]
        named == StoreNames \ {""}
    IN "" \notin Keys(d)
       => /\ "" \notin Keys(LoadData(d, file))
          /\ \A name \in named, qrc_datas \in UriLists :
                "" \notin Keys(register_secret(d, name, qrc_datas).data)
          /\ \A old_name \in StoreNames, new_name \in named :
                "" \notin Keys(rename_secret(d, old_name, new_name).data)
          /\ \A names \in NameLists :
                "" \notin Keys(remove_secrets(d, names, <<>>).data)

\* what C22 says of list on store d
ListingOf(d) ==
    LET short == list_secrets(d, FALSE)
        full == list_secrets(d, TRUE)
    IN /\ Len(short) = Len(d) /\ Len(full) = Len(d)
       /\ \A i \in DOMAIN d :
             /\ DOMAIN short[i] = (DOMAIN d[i].v) \ {"secret"}
             /\ \A f \in DOMAIN short[i] : short[i][f] = d[i].v[f]
             /\ short[i].name = d[i].k
             /\ full[i] = d[i].v

C23_RegisterReturnsNoSecret ==
    [][\A s \in Sess :
          RegisterFromURIs(s)
          => \A i \in DOMAIN ret'[s] :
                DOMAIN ret'[s][i] = {"name", "account", "issuer"}]_vars

\* the records carry name, account and issuer (and may carry more)
C23_RegisterReturnsNameAccountIssuer ==
    [][\A s \in Sess :
          RegisterFromURIs(s)
          => \A i \in DOMAIN ret'[s] :
                {"name", "account", "issuer"} \subseteq DOMAIN ret'[s][i]]_vars

\* C24: a gen_totp_token call raises the not-found error when the name is
\* absent from the store or its record has no secret or an empty one, and
\* returns the token of the stored secret otherwise; the call changes
\* neither the store nor the file.
C24_TokenNeedsSecret ==
    /\ [](call.op = "token"
           => LET d == secret_data[Mgr]
                  n == call.token_name
              IN IF /\ n \in Keys(d)
                    /\ "secret" \in DOMAIN DictGet(d, n)
                    /\ DictGet(d, n).secret # ""
                 THEN /\ call.err = ""
                      /\ call.result = "totp:" \o DictGet(d, n).secret
                 ELSE call.err = "ValueError" /\ call.result = "")
    /\ [][StoreToken => secret_data' = secret_data /\ file' = file]_vars

\* a token was asked for a name whose record holds the empty secret, in a
\* store that also holds a record with a secret
C24_Witness ==
    /\ call.op = "token" /\ call.err = "ValueError"
    /\ call.token_name \in Keys(secret_data[Mgr])
    /\ DictGet(secret_data[Mgr], call.token_name).secret = ""
    /\ \E k \in Keys(secret_data[Mgr]) : HasSecret(secret_data[Mgr], k)

\* C25 (as claimed): a SecretMgr constructed with None or with the empty
\* string is bound to the default path, and to the given path otherwise.
C25_EmptyPathIsDefault ==
    call.op = "init"
    => call.path = IF call.secrets_file.is_none \/ call.secrets_file.str = ""
                   THEN DefaultPath
                   ELSE call.secrets_file.str

\* the same for None and for non-empty strings
C25_NonePathIsDefault ==
    (call.op = "init" /\ ~(~call.secrets_file.is_none /\ call.secrets_file.str = ""))
    => call.path = IF call.secrets_file.is_none
                   THEN DefaultPath
                   ELSE call.secrets_file.str

\* C26: a release by a Session that does not hold the lock, because it
\* timed out in acquire or has already released, raises nothing and leaves
\* the lock, the Sessions and the files as they are.
C26_ReleaseIsIdempotent ==
    [][\A s \in Sess :
          (Release(s) /\ s \notin lock)
          => /\ lock' = lock
             /\ call'.err = ""
             /\ <<pc, err, secret_data, ret, file, bak, tmp>>'
                  = <<pc, err, secret_data, ret, file, bak, tmp>>]_vars

\* a Session that timed out and one that left its scope released, the
\* latter while the other Session held the lock
C26_Witness ==
    /\ call.op = "release" /\ ~call.held
    /\ err[call.session] = ""
    /\ \E t \in Sess : t # call.session /\ lock = {t} /\ pc[t] = "loaded"

\* C27: a Session that has not loaded holds an empty store, whatever the
\* other Sessions did to theirs, and the store of a Session that has just
\* loaded is the content of the file at path and nothing else.
C27_StoreComesFromFileOnly ==
    \A s \in Sess :
        /\ pc[s] \in {"waiting", "held"} => secret_data[s] = <<>>
        /\ pc[s] = "loaded" => secret_data[s] = LoadData(<<>>, file)

\* a Session has loaded the file as the behaviour found it, after another
\* Session changed its own store and failed to save it
C27_Witness ==
    \E s, t \in Sess :
        /\ s # t
        /\ pc[s] = "loaded" /\ secret_data[s] # <<>>
        /\ pc[t] = "done" /\ err[t] = "IOError"
        /\ file = file0 /\ lastSaved = NoSave

\* C28: whatever the interleaving, every Session ends: it left its scope
\* with the lock released, or acquire failed with Timeout.
C28_EverySessionEnds ==
    /\ \A s \in Sess : <>(pc[s] = "done" /\ s \notin lock)
    /\ [](\A s \in Sess : pc[s] # "done" => ENABLED <<Step(s)>>_vars)

\* one Session ended by Timeout while the other, which held the lock,
\* ended after its save replaced the file
C28_Witness ==
    \E s, t \in Sess :
        /\ pc[s] = "done" /\ err[s] = "Timeout"
        /\ pc[t] = "done" /\ err[t] = "" /\ lastSaved # NoSave
        /\ lock = {}

\* C29: whatever a tool is called with and whatever the file holds, the
\* tool returns or raises ValueError with a message; no other exception
\* leaves a tool.
C29_OnlyValueErrorEscapes ==
    call.op \in McpOps =>
        \/ call.raised = NoExc
        \/ call.raised.type = "ValueError" /\ call.raised.msg # ""

\* C29, the part that holds: an exception of the operation under
\* handle_operation leaves the tool as ValueError with a message, and the
\* validation before it raises ValueError or FileNotFoundError.
C29_OperationErrorsAreValueErrors ==
    call.op \in McpOps /\ call.raised # NoExc =>
        /\ call.raised.msg # ""
        /\ call.by = "operation" => call.raised.type = "ValueError"
        /\ call.by = "validation" =>
               call.raised.type \in {"ValueError", "FileNotFoundError"}

\* C30: after a load that raised nothing, the secrets file grants no
\* permission to group or others.
C30_LoadedFileIsOwnerOnly ==
    call.op = "load" /\ call.err = "" => file.mode \cap GroupOtherBits = {}

\* C30, the part that holds: after a load that raised nothing, a file of
\* the user grants neither read nor write to group or others, and a file
\* that granted either was set to owner read/write only.
C30_OwnFileNotReadableOrWritable ==
    call.op = "load" /\ call.err = "" /\ ~Foreign(file) =>
        /\ file.mode \cap {"gr", "gw", "or", "ow"} = {}
        /\ ~check_file_permissions(file0) => file.mode = OwnerOnly

\* C31: just after a load that raised nothing, the store holds exactly the
\* named records of the file, whatever it held before.
C31_LoadReplacesStore ==
    call.op = "load" /\ call.err = "" =>
        Range(secret_data[Mgr]) = Range(LoadData(<<>>, file))

\* C31, the part that holds: just after a load that raised nothing, every
\* named record of the file is in the store under its name.
C31_LoadAddsFileRecords ==
    call.op = "load" /\ call.err = "" =>
        Range(LoadData(<<>>, file)) \subseteq Range(secret_data[Mgr])

\* C32: a RemoveSecrets that found none of its names and a RenameSecret
\* whose old name is absent go to the end of the scope without a save: the
\* step and every later step of that Session leave the file at path, the
\* backup and the temporary file as they are.
C32_NothingFoundNothingSaved ==
    [][\A s \in Sess :
          /\ (RemoveSecrets(s) /\ ret'[s] = <<>>)
             => pc'[s] = "exit" /\ <<file, bak, tmp>>' = <<file, bak, tmp>>
          /\ (RenameSecret(s) /\ ret'[s] = <<[renamed |-> FALSE]>>)
             => pc'[s] = "exit" /\ <<file, bak, tmp>>' = <<file, bak, tmp>>
          /\ (pc[s] = "exit" /\ pc'[s] # "exit")
             => pc'[s] = "done" /\ <<file, bak, tmp>>' = <<file, bak, tmp>>]_vars

\* a Session removed none of its names from a store of records and stands
\* at the end of its scope, no save having replaced the file
C32_Witness ==
    \E s \in Sess :
        /\ pc[s] = "exit" /\ err[s] = "" /\ ret[s] = <<>>
        /\ secret_data[s] # <<>>
        /\ bak = Absent /\ lastSaved = NoSave

\* a Session whose old name was absent stands at the end of its scope
C32_WitnessRename ==
    \E s \in Sess :
        /\ pc[s] = "exit" /\ ret[s] = <<[renamed |-> FALSE]>>
        /\ bak = Absent /\ lastSaved = NoSave

\* C33: a RegisterFromURIs that raises (no QR image, an unsupported image
\* type, a decoded string that is no TOTP URI) holds the lock, does not go
\* on to save and leaves the file at path, the backup and the temporary
\* file as they are; the Session then leaves its scope, releasing the lock
\* and again touching none of the files.
C33_FailedRegisterSavesNothing ==
    [][\A s \in Sess :
          /\ (RegisterFromURIs(s) /\ err'[s] # "")
             => /\ pc'[s] = "raised"
                /\ <<file, bak, tmp, lastSaved>>' = <<file, bak, tmp, lastSaved>>
          /\ (pc[s] = "raised" /\ pc'[s] # "raised")
             => /\ pc'[s] = "done" /\ s \notin lock'
                /\ <<file, bak, tmp, lastSaved>>' = <<file, bak, tmp, lastSaved>>]_vars

\* a registration raised on its second string after the first one entered
\* the store: the store differs from the file, which no save has replaced
C33_Witness ==
    \E s \in Sess :
        /\ pc[s] = "raised" /\ err[s] = "ValueError"
        /\ Range(secret_data[s]) # Range(LoadData(<<>>, file))
        /\ file.kind = "doc" /\ bak = Absent /\ lastSaved = NoSave

\* a registration raised because the QR image does not exist
C33_WitnessNoImage ==
    \E s \in Sess :
        /\ pc[s] = "raised" /\ err[s] = "FileNotFoundError"
        /\ file.kind = "doc" /\ bak = Absent /\ lastSaved = NoSave

\* what C34 says of rename(old_name, new_name) on store d
RenameOverwrites(d, old_name, new_name) ==
    LET r == rename_secret(d, old_name, new_name) IN
    /\ r.result = TRUE
    /\ Len(r.data) = Len(d) - 1
    /\ Keys(r.data) = Keys(d) \ {old_name}
    /\ DictGet(r.data, new_name) = [DictGet(d, old_name) EXCEPT !.name = new_name]
    /\ \A k \in Keys(d) \ {old_name, new_name} : DictGet(r.data, k) = DictGet(d, k)

\* C34: from every reachable store, rename(old_name, new_name) with both
\* names present and different puts the record of old_name in the place of
\* the record of new_name: one entry fewer, every other entry as it was.
C34_RenameOverwritesExisting ==
    \A old_name \in StoreNames, new_name \in StoreNames :
        ( /\ old_name \in Keys(secret_data[Mgr])
          /\ new_name \in Keys(secret_data[Mgr])
          /\ new_name # old_name )
        => RenameOverwrites(secret_data[Mgr], old_name, new_name)

\* a store of three entries, two of which are a and b with different
\* records, on which rename("a", "b") leaves two entries
C34_Witness ==
    LET d == secret_data[Mgr] IN
    /\ Len(d) = 3 /\ {"a", "b"} \subseteq Keys(d)
    /\ DictGet(d, "a").account # DictGet(d, "b").account
    /\ Len(rename_secret(d, "a", "b").data) = 2
    /\ DictGet(rename_secret(d, "a", "b").data, "b").account = DictGet(d, "a").account

\* f holds the complete document g: same records, same time of writing
SameDoc(f, g) ==
    /\ f.kind = "doc" /\ g.kind = "doc"
    /\ f.secrets = g.secrets
    /\ f.last_update = g.last_update

\* C35: from the first step of a save that found a document at path, through
\* every step, failure or crash of it and until the next save begins, that
\* document is complete at path or at the backup path.
C35_PreviousGenerationSurvives ==
    (snap.state # "none" /\ snap.file.kind = "doc")
    => SameDoc(file, snap.file) \/ SameDoc(bak, snap.file)

\* a later save crashed between its two renames: nothing at path, and the
\* backup is the document the save before it wrote
C35_Witness ==
    /\ snap.state = "crashed"
    /\ lastSaved.saved
    /\ file = Absent
    /\ SameDoc(bak, snap.file)
    /\ bak.last_update >= 1

C36_WitnessToken ==
    \E s \in Sess :
        /\ pc[s] = "exit" /\ Len(ret[s]) = 1 /\ DOMAIN ret[s][1] = {"token"}
        /\ secret_data[s] = LoadData(<<>>, file)
        /\ bak = Absent

\* a name the tools must refuse: empty, blank, or longer than 100 characters
BadName(name) == Strip(name) = "" \/ Len(Strip(name)) > 100

\* the requests C37 lists: call c on file f has a bad name, no name to
\* remove, a rename onto the same name, or a secrets file that is missing
Defective(c, f) ==
    \/ ~PathExists(c.secrets_file, f)
    \/ /\ c.op = "remove_secrets"
       /\ \/ c.secret_names = <<>>
          \/ \E i \in DOMAIN c.secret_names : BadName(c.secret_names[i])
    \/ /\ c.op = "rename_secret"
       /\ \/ BadName(c.old_name) \/ BadName(c.new_name)
          \/ c.old_name = c.new_name

\* C37: every defective request to a tool is refused by the validation, and
\* a refusing step opens no Session: the lock stays free, the caller's
\* SecretMgr stays idle, and the file at path, the backup and the temporary
\* file are as they were.
C37_RejectedBeforeAnySession ==
    [][(pc[Mgr] = "idle" /\ call' # call)
       => /\ Defective(call', file) => call'.by = "validation"
          /\ call'.by = "validation"
             => /\ lock = {} /\ lock' = {}
                /\ pc' = pc
                /\ <<file, bak, tmp, secret_data, lastSaved, snap>>'
                     = <<file, bak, tmp, secret_data, lastSaved, snap>>]_vars

\* after a rename that was accepted and saved, a rename of a onto a is
\* refused: the file and the backup are those of the save
C37_Witness ==
    /\ call.op = "rename_secret" /\ call.by = "validation"
    /\ call.old_name = "a" /\ call.new_name = "a"
    /\ call.raised.type = "ValueError"
    /\ pc[Mgr] = "idle" /\ lock = {}
    /\ lastSaved.saved /\ snap.state = "done"
    /\ file.kind = "doc" /\ bak.kind = "doc"

\* a removal whose second name is blank is refused
C37_WitnessRemove ==
    /\ call.op = "remove_secrets" /\ call.by = "validation"
    /\ call.secret_names = <<"a", " ">>
    /\ pc[Mgr] = "idle" /\ lock = {} /\ file.kind = "doc"

\* C38: of two Sessions on the path, when one has left its scope and the
\* other is still waiting in acquire, not timed out, the other obtains the
\* lock, and having it goes on to the end of its own scope.
C38_WaiterGetsReleasedLock ==
    \A s \in PairSess, t \in PairSess :
        /\ (s # t /\ pc[t] = "waiting" /\ pc[s] = "done" /\ lock = {})
              ~> (lock = {t} /\ pc[t] = "held")
        /\ (lock = {t}) ~> (pc[t] = "done" /\ lock = {})

\* the second Session holds the lock and has loaded what the first one,
\* now out of its scope, saved
C38_Witness ==
    \E s \in PairSess, t \in PairSess :
        /\ s # t
        /\ pc[s] = "done" /\ err[s] = "" /\ lastSaved.saved
        /\ lock = {t} /\ pc[t] = "loaded"
        /\ Range(secret_data[t]) = Range(LoadData(<<>>, file))

====
